---------------------------- MODULE Spec2Model ----------------------------
(***************************************************************************)
(* A model of the GitHub-Actions -> Argo workflow conversion service.      *)
(*                                                                         *)
(*   - the translator (convertGHAtoArgo, sanitizeName, mapRunsOnToImage)   *)
(*     of workflow-merger/gha-conerter/main.go, as pure operators;         *)
(*   - the asynchronous server of the same file: handleConvert,            *)
(*     handleGetResult, the worker pool, JobQueue and ResultStore;         *)
(*   - the synchronous server (unnamed/part_000): handleConversion, the    *)
(*     worker pool with a private result channel per job.                  *)
(*                                                                         *)
(* Texts that the code inspects character by character (names, labels)     *)
(* are sequences of characters; texts it only copies (shell commands,      *)
(* messages) are plain strings.  An ASCII character is the one-character   *)
(* string; a character outside ASCII is written as its code point, as in   *)
(* "U+0130" (string literals of the language hold ASCII only).             *)
(***************************************************************************)
EXTENDS Integers, Sequences, FiniteSets, TLC

(***************************************************************************)
(* Text helpers                                                            *)
(***************************************************************************)

LowerLetters ==
    {"a","b","c","d","e","f","g","h","i","j","k","l","m",
     "n","o","p","q","r","s","t","u","v","w","x","y","z"}

Digits == {"0","1","2","3","4","5","6","7","8","9"}

\* strings.ToLower on one character: unicode.ToLower of the rune.  The upper
\* case letters of the model's alphabet are the ASCII ones, the two letters
\* outside ASCII whose lower case is an ASCII letter (U+0130 -> 'i',
\* U+212A -> 'k') and the Latin-1 capitals U+00C0..U+00DE (without U+00D7, the
\* multiplication sign), whose lower case is 32 code points further on.  Every
\* other character of the alphabet has no lower-case form and is left as it is.
ToLowerChar(c) ==
    CASE c = "A" -> "a" [] c = "B" -> "b" [] c = "C" -> "c" [] c = "D" -> "d"
      [] c = "E" -> "e" [] c = "F" -> "f" [] c = "G" -> "g" [] c = "H" -> "h"
      [] c = "I" -> "i" [] c = "J" -> "j" [] c = "K" -> "k" [] c = "L" -> "l"
      [] c = "M" -> "m" [] c = "N" -> "n" [] c = "O" -> "o" [] c = "P" -> "p"
      [] c = "Q" -> "q" [] c = "R" -> "r" [] c = "S" -> "s" [] c = "T" -> "t"
      [] c = "U" -> "u" [] c = "V" -> "v" [] c = "W" -> "w" [] c = "X" -> "x"
      [] c = "Y" -> "y" [] c = "Z" -> "z"
      [] c = "U+0130" -> "i" [] c = "U+212A" -> "k"
      [] c = "U+00C0" -> "U+00E0" [] c = "U+00C1" -> "U+00E1" [] c = "U+00C2" -> "U+00E2"
      [] c = "U+00C3" -> "U+00E3" [] c = "U+00C4" -> "U+00E4" [] c = "U+00C5" -> "U+00E5"
      [] c = "U+00C6" -> "U+00E6" [] c = "U+00C7" -> "U+00E7" [] c = "U+00C8" -> "U+00E8"
      [] c = "U+00C9" -> "U+00E9" [] c = "U+00CA" -> "U+00EA" [] c = "U+00CB" -> "U+00EB"
      [] c = "U+00CC" -> "U+00EC" [] c = "U+00CD" -> "U+00ED" [] c = "U+00CE" -> "U+00EE"
      [] c = "U+00CF" -> "U+00EF" [] c = "U+00D0" -> "U+00F0" [] c = "U+00D1" -> "U+00F1"
      [] c = "U+00D2" -> "U+00F2" [] c = "U+00D3" -> "U+00F3" [] c = "U+00D4" -> "U+00F4"
      [] c = "U+00D5" -> "U+00F5" [] c = "U+00D6" -> "U+00F6" [] c = "U+00D8" -> "U+00F8"
      [] c = "U+00D9" -> "U+00F9" [] c = "U+00DA" -> "U+00FA" [] c = "U+00DB" -> "U+00FB"
      [] c = "U+00DC" -> "U+00FC" [] c = "U+00DD" -> "U+00FD" [] c = "U+00DE" -> "U+00FE"
      [] OTHER -> c

ToLower(s) == [i \in 1..Len(s) |-> ToLowerChar(s[i])]

\* The character class [a-z0-9-] of nonDNSSafeRegex (negated there).
DNSSafeChar(c) == c \in LowerLetters \cup Digits \cup {"-"}

\* nonDNSSafeRegex.ReplaceAllString(s, "-"): every maximal run of characters
\* outside [a-z0-9-] becomes one "-".
RECURSIVE ReplaceNonDNSSafe(_)
ReplaceNonDNSSafe(s) ==
    IF s = <<>> THEN <<>>
    ELSE IF DNSSafeChar(Head(s)) THEN <<Head(s)>> \o ReplaceNonDNSSafe(Tail(s))
    ELSE IF Len(s) > 1 /\ ~DNSSafeChar(s[2]) THEN ReplaceNonDNSSafe(Tail(s))
    ELSE <<"-">> \o ReplaceNonDNSSafe(Tail(s))

RECURSIVE StripLeadingDashes(_)
StripLeadingDashes(s) ==
    IF s # <<>> /\ Head(s) = "-" THEN StripLeadingDashes(Tail(s)) ELSE s

RECURSIVE StripTrailingDashes(_)
StripTrailingDashes(s) ==
    IF s # <<>> /\ s[Len(s)] = "-"
    THEN StripTrailingDashes(SubSeq(s, 1, Len(s) - 1))
    ELSE s

\* edgeDashRegex.ReplaceAllString(s, ""): `^-+|-+$`.
StripEdgeDashes(s) == StripTrailingDashes(StripLeadingDashes(s))

\* The DNS-1123 label length the sanitizer truncates to.
MaxNameLen == 63

Unnamed == <<"u","n","n","a","m","e","d">>

sanitizeName(name) ==
    IF name = <<>> THEN Unnamed
    ELSE LET stripped == StripEdgeDashes(ReplaceNonDNSSafe(ToLower(name)))
         IN  IF Len(stripped) > MaxNameLen
             THEN SubSeq(stripped, 1, MaxNameLen)
             ELSE stripped

\* strings.Contains(s, sub)
Contains(s, sub) ==
    \E i \in 1..(Len(s) - Len(sub) + 1) : SubSeq(s, i, i + Len(sub) - 1) = sub

Ubuntu2204 == <<"u","b","u","n","t","u","-","2","2",".","0","4">>
Ubuntu2004 == <<"u","b","u","n","t","u","-","2","0",".","0","4">>
UbuntuLatest == <<"u","b","u","n","t","u","-","l","a","t","e","s","t">>

mapRunsOnToImage(runsOn) ==
    IF Contains(runsOn, Ubuntu2204) \/ Contains(runsOn, UbuntuLatest)
    THEN "ubuntu:22.04"
    ELSE IF Contains(runsOn, Ubuntu2004) THEN "ubuntu:20.04"
    ELSE "alpine:latest"

DigitChar(d) ==
    CASE d = 0 -> "0" [] d = 1 -> "1" [] d = 2 -> "2" [] d = 3 -> "3"
      [] d = 4 -> "4" [] d = 5 -> "5" [] d = 6 -> "6" [] d = 7 -> "7"
      [] d = 8 -> "8" [] d = 9 -> "9"

\* The %d verb of fmt.Sprintf for a non-negative integer.
RECURSIVE Itoa(_)
Itoa(n) == IF n < 10 THEN <<DigitChar(n)>> ELSE Itoa(n \div 10) \o <<DigitChar(n % 10)>>

\* fmt.Sprintf("step-%d", i)
StepIndexName(i) == <<"s","t","e","p","-">> \o Itoa(i)


(***************************************************************************)
(* The translator: convertGHAtoArgo                                        *)
(*                                                                         *)
(* A workflow model (what model.ReadWorkflow yields) is                    *)
(*   [Name, Jobs]  with Jobs a function  job id -> [Needs, RunsOn, Steps], *)
(* a step is [Name, Run, Uses, With]; Run = "" / Uses = "" mean absent and *)
(* With = "" means a nil mapping.  A pointer field of a template (Script,  *)
(* DAG) is a sequence of length 0 (nil) or 1.                              *)
(***************************************************************************)

MainDag == <<"m","a","i","n","-","d","a","g">>

\* int64(50)
Parallelism == 50

\* Lines 241-245: the step's name and the name of its template.
StepName(ghaStep, i) ==
    LET stepName == sanitizeName(ghaStep.Name)
    IN  IF stepName = <<>> THEN StepIndexName(i) ELSE stepName

StepTemplateName(jobTemplateName, ghaStep, i) ==
    jobTemplateName \o <<"-">> \o StepName(ghaStep, i)

\* A base image taken from the last run-environment label of the job.
BaseImage_LastLabel(ghaJob) ==
    IF Len(ghaJob.RunsOn) > 0 THEN mapRunsOnToImage(ghaJob.RunsOn[Len(ghaJob.RunsOn)])
    ELSE "alpine:latest"

\* Lines 257-263: the base image of a job.
BaseImage(ghaJob) ==
    IF Len(ghaJob.RunsOn) > 0 THEN mapRunsOnToImage(ghaJob.RunsOn[1])
    ELSE "alpine:latest"

\* Lines 280-283.
WithParams(ghaStep) ==
    IF ghaStep.With # "" THEN <<"Parameters (with): ", ghaStep.With>> ELSE <<>>

\* A loop without the `continue` of line 300: a step with neither run nor
\* uses adds its bare template.
StepTemplates_NoSkip(jobTemplateName, ghaJob, i) ==
    LET ghaStep == ghaJob.Steps[i + 1]
        name    == StepTemplateName(jobTemplateName, ghaStep, i)
    IN  << [Name   |-> name,
            Steps  |-> <<>>,
            Script |-> IF ghaStep.Run # ""
                       THEN << [Image   |-> BaseImage(ghaJob),
                                Command |-> <<"bash", "-c">>,
                                Source  |-> <<ghaStep.Run>>] >>
                       ELSE IF ghaStep.Uses # ""
                       THEN << [Image   |-> "alpine:latest",
                                Command |-> <<"sh", "-c">>,
                                Source  |-> <<"TODO: Manually implement GHA Action: ",
                                              ghaStep.Uses>>
                                            \o WithParams(ghaStep)
                                            \o <<"exit 1">>] >>
                       ELSE <<>>,
            DAG    |-> <<>>] >>

\* Lines 265-302: the templates a step adds to stepTemplates (none for a
\* step that has neither run nor uses).
StepTemplates(jobTemplateName, ghaJob, i) ==
    LET ghaStep == ghaJob.Steps[i + 1]
        name    == StepTemplateName(jobTemplateName, ghaStep, i)
    IN  IF ghaStep.Run # ""
        THEN << [Name   |-> name,
                 Steps  |-> <<>>,
                 Script |-> << [Image   |-> BaseImage(ghaJob),
                                Command |-> <<"bash", "-c">>,
                                Source  |-> <<ghaStep.Run>>] >>,
                 DAG    |-> <<>>] >>
        ELSE IF ghaStep.Uses # ""
        THEN << [Name   |-> name,
                 Steps  |-> <<>>,
                 Script |-> << [Image   |-> "alpine:latest",
                                Command |-> <<"sh", "-c">>,
                                Source  |-> <<"TODO: Manually implement GHA Action: ",
                                              ghaStep.Uses>>
                                            \o WithParams(ghaStep)
                                            \o <<"exit 1">>] >>,
                 DAG    |-> <<>>] >>
        ELSE <<>>

\* Lines 248-253: the entry a step adds to the job template's Steps.
StepRef(jobTemplateName, ghaJob, i) ==
    LET ghaStep == ghaJob.Steps[i + 1]
    IN  << [Name     |-> StepName(ghaStep, i),
            Template |-> StepTemplateName(jobTemplateName, ghaStep, i)] >>

\* The loop of lines 240-303 over the steps i .. len-1 of a job: the pair
\* of the step references and the step templates it collects.
RECURSIVE StepsLoop(_, _, _)
StepsLoop(jobTemplateName, ghaJob, i) ==
    IF i >= Len(ghaJob.Steps) THEN [refs |-> <<>>, tpls |-> <<>>]
    ELSE LET rest == StepsLoop(jobTemplateName, ghaJob, i + 1)
         IN  [refs |-> <<StepRef(jobTemplateName, ghaJob, i)>> \o rest.refs,
              tpls |-> StepTemplates(jobTemplateName, ghaJob, i) \o rest.tpls]

\* Lines 224-308 for one job: the job template followed by its step
\* templates.  A ParallelSteps group holds one step.
JobTemplates(jobName, ghaJob) ==
    LET jobTemplateName == sanitizeName(jobName)
        loop == StepsLoop(jobTemplateName, ghaJob, 0)
    IN  << [Name   |-> jobTemplateName,
            Steps  |-> loop.refs,
            Script |-> <<>>,
            DAG    |-> <<>>] >> \o loop.tpls

\* The dependencies recorded for a job (line 228-229).
JobNeeds(ghaJob) == ghaJob.Needs

\* jobDependencies after the loop over the jobs in the order `order`: a map
\* keyed by job template name; a later job of the same name overwrites.
RECURSIVE JobDependencies(_, _)
JobDependencies(jobs, order) ==
    IF order = <<>> THEN << >>
    ELSE LET n     == Len(order)
             prev  == JobDependencies(jobs, SubSeq(order, 1, n - 1))
             key   == sanitizeName(order[n])
         IN  [k \in DOMAIN prev \cup {key} |->
                 IF k = key THEN JobNeeds(jobs[order[n]]) ELSE prev[k]]

\* jobNames after the loop (line 225).
JobNames(order) == [i \in 1..Len(order) |-> sanitizeName(order[i])]

\* argoWF.Spec.Templates after the loop (lines 307-308).
RECURSIVE JobsLoopTemplates(_, _)
JobsLoopTemplates(jobs, order) ==
    IF order = <<>> THEN <<>>
    ELSE JobTemplates(Head(order), jobs[Head(order)])
            \o JobsLoopTemplates(jobs, Tail(order))

\* Lines 322-330: the DAG task of a job template name.
DagTask(jobTplName, jobDependencies) ==
    [Name         |-> jobTplName,
     Template     |-> jobTplName,
     Dependencies |-> IF jobTplName \in DOMAIN jobDependencies
                         /\ Len(jobDependencies[jobTplName]) > 0
                      THEN jobDependencies[jobTplName]
                      ELSE <<>>]

\* Lines 317-331: the main-dag template.
DagTemplate(jobNames, jobDependencies) ==
    [Name   |-> MainDag,
     Steps  |-> <<>>,
     Script |-> <<>>,
     DAG    |-> << [Tasks |-> [i \in 1..Len(jobNames) |->
                                  DagTask(jobNames[i], jobDependencies)]] >>]

\* A translator that builds the DAG whatever the number of jobs.
convertGHAtoArgo_AlwaysDag(ghaWF, order) ==
    LET jobNames  == JobNames(order)
        deps      == JobDependencies(ghaWF.Jobs, order)
        templates == JobsLoopTemplates(ghaWF.Jobs, order)
    IN  [GenerateName |-> sanitizeName(ghaWF.Name) \o <<"-">>,
         Entrypoint   |-> MainDag,
         Templates    |-> templates \o <<DagTemplate(jobNames, deps)>>,
         Parallelism  |-> Parallelism]

\* convertGHAtoArgo after a successful parse.  `order` is the order in which
\* the range over the Jobs map visits the job ids (unspecified in Go).
convertGHAtoArgo(ghaWF, order) ==
    LET jobNames  == JobNames(order)
        deps      == JobDependencies(ghaWF.Jobs, order)
        templates == JobsLoopTemplates(ghaWF.Jobs, order)
    IN  [GenerateName |-> sanitizeName(ghaWF.Name) \o <<"-">>,
         Entrypoint   |-> IF Len(jobNames) = 1 THEN jobNames[1] ELSE MainDag,
         Templates    |-> IF Len(jobNames) = 1 THEN templates
                          ELSE templates \o <<DagTemplate(jobNames, deps)>>,
         Parallelism  |-> Parallelism]

\* The iteration orders of a map with the given key set.
Orders(keys) ==
    {o \in [1..Cardinality(keys) -> keys] :
        \A i, j \in 1..Cardinality(keys) : i # j => o[i] # o[j]}


(***************************************************************************)
(* The synchronous server's translator: convertWorkflow (unnamed/part_000) *)
(***************************************************************************)

\* The SimplifiedWorkflow of a parsed workflow: its name and its job ids in
\* the order the range over the Jobs map visits them.
SimplifiedWorkflow(workflow, order) == [name |-> workflow.Name, jobs |-> order]

(***************************************************************************)
(* Request bodies.  Parsing the source grammar is the work of nektos/act   *)
(* and yaml.v3; the model knows a few documents by name and what they      *)
(* parse to.                                                               *)
(***************************************************************************)

JobA == <<"A">>
JobB == <<"B">>

RunStep(name, run) == [Name |-> name, Run |-> run, Uses |-> "", With |-> ""]
UsesStep(name, uses, with) == [Name |-> name, Run |-> "", Uses |-> uses, With |-> with]
EmptyStep(name) == [Name |-> name, Run |-> "", Uses |-> "", With |-> ""]

\* jobs: A: {steps: [{run: make test}]}, B: {needs: A, steps: [{run: make}]}
WorkflowTwo ==
    [Name |-> <<>>,
     Jobs |-> [j \in {JobA, JobB} |->
                 [Needs  |-> IF j = JobB THEN <<JobA>> ELSE <<>>,
                  RunsOn |-> <<>>,
                  Steps  |-> <<RunStep(<<>>, IF j = JobA THEN "make test" ELSE "make")>>]]]

\* The documents a request body can hold: "bad" is not a workflow document.
Documents == {"bad", "two"}

\* model.ReadWorkflow(strings.NewReader(ghaYAML), false) and, in the
\* synchronous server, yaml.Unmarshal(yamlData, &workflow).
ReadWorkflow(body) ==
    IF body = "two"
    THEN [err |-> FALSE, wf |-> WorkflowTwo]
    ELSE [err |-> TRUE,  wf |-> [Name |-> <<>>, Jobs |-> << >>]]

\* What a request brings: its method, whether reading its body fails, and
\* the body read.
RequestInputs ==
    {[method |-> "GET", readErr |-> FALSE, body |-> ""],
     [method |-> "POST", readErr |-> TRUE, body |-> ""],
     [method |-> "POST", readErr |-> FALSE, body |-> ""]}
    \cup {[method |-> "POST", readErr |-> FALSE, body |-> d] : d \in Documents}

(***************************************************************************)
(* Sizes.  The servers run NumWorkers = MaxWorkers = 5 workers on a queue  *)
(* of MaxQueue = 100 jobs; the model keeps the code and scales both down.  *)
(***************************************************************************)

\* Capacity of JobQueue (make(chan ConversionJob, MaxQueue)).
MaxQueue == 2

\* Workers of the asynchronous server (startWorkerPool(NumWorkers, ...)).
NumWorkers == 2

\* Workers of the synchronous server (StartWorkerPool).
MaxWorkers == 2

\* The requests the model follows: one more than the queue can hold.
NumReqs == MaxQueue + 1

Reqs == 1..NumReqs

PoolSize(m) == IF m = "async" THEN NumWorkers ELSE MaxWorkers

\* Requests are numbered in the order their handlers run: request r is the
\* r-th one the server handles.
Arrived(rs, r) == IF r = 1 THEN TRUE ELSE rs[r - 1].pc # "new"

\* uuid.New().String() in the handler of request r, and the identity of the
\* channel make(chan ConversionResult) creates there: fresh for each request.
NewID(r) == r

\* The ids a poll may ask for: 0 is the empty path ("/result/"), 1..NumReqs
\* are the ids the requests may be given, NumReqs + 1 is an id never issued.
PollIDs == 0..(NumReqs + 1)

VARIABLES
    mode,         \* which server runs: "async" (main.go) or "sync" (part_000)
    JobQueue,     \* the buffered channel: the jobs sent and not yet received
    ResultStore,  \* the sync.Map: job id -> ConversionResult
    workers,      \* each worker goroutine: [pc, job, result]
    reqs,         \* each request's handler: [pc, in, jobID, resultChan, status, out]
    poll,         \* the last answer of handleGetResult: [method, id, status, out]
    calls,        \* history: job -> how often the translator was invoked on it
    received,     \* history: job -> how often a worker received it from JobQueue
    stores,       \* history: job -> how often its result was stored or sent
    ghaWF,        \* translator check: the workflow model translated
    argoWF,       \* translator check: <<>> or <<the document produced>>
    text,         \* sanitizer check: the text given to sanitizeName
    labels        \* sanitizer check: what sanitizeName returned, applied to
                  \* the text and then to its own result

poolVars == <<mode, JobQueue, ResultStore, workers, reqs, poll, calls, received, stores>>
sanVars == <<text, labels>>
transVars == <<ghaWF, argoWF, sanVars>>
vars == <<mode, JobQueue, ResultStore, workers, reqs, poll, calls, received, stores,
          ghaWF, argoWF, text, labels>>

(***************************************************************************)
(* Channel operations                                                      *)
(***************************************************************************)

\* A select that takes the default branch one job too early.
TrySend_RejectEarly(queue, job) ==
    IF Len(queue) < MaxQueue - 1
    THEN [sent |-> TRUE, queue |-> Append(queue, job)]
    ELSE [sent |-> FALSE, queue |-> queue]

\* A select that still sends when the buffer is full.
TrySend_OffByOne(queue, job) ==
    IF Len(queue) <= MaxQueue
    THEN [sent |-> TRUE, queue |-> Append(queue, job)]
    ELSE [sent |-> FALSE, queue |-> queue]

\* A full queue that answers "full" and yet takes the job, over the oldest.
TrySend_Overwrite(queue, job) ==
    IF Len(queue) < MaxQueue
    THEN [sent |-> TRUE, queue |-> Append(queue, job)]
    ELSE [sent |-> FALSE, queue |-> Append(Tail(queue), job)]

\* A send that puts the job in front of the buffered ones.
TrySend_Prepend(queue, job) ==
    IF Len(queue) < MaxQueue
    THEN [sent |-> TRUE, queue |-> <<job>> \o queue]
    ELSE [sent |-> FALSE, queue |-> queue]

\* select { case JobQueue <- job: ... default: ... }: the send happens when
\* the buffer has room, the default branch otherwise.
TrySend(queue, job) ==
    IF Len(queue) < MaxQueue
    THEN [sent |-> TRUE, queue |-> Append(queue, job)]
    ELSE [sent |-> FALSE, queue |-> queue]

\* for job := range jobQueue: a receive is possible when a job is buffered.
CanReceive(queue) == queue # <<>>
ReceivedJob(queue) == Head(queue)
\* A receive that leaves the job in the queue.
AfterReceive_Peek(queue) == queue

AfterReceive(queue) == Tail(queue)

\* A store that keeps the newest result only.
Store_Evict(store, key, value) == [k \in {key} |-> value]

\* resultStore.Store(key, value)
Store(store, key, value) ==
    [k \in DOMAIN store \cup {key} |-> IF k = key THEN value ELSE store[k]]

\* The key of a job in the history variables.
JobKey(job) == IF mode = "async" THEN job.JobID ELSE job.ResultChan

Bump(f, k) == [f EXCEPT ![k] = @ + 1]


(***************************************************************************)
(* The asynchronous server (workflow-merger/gha-conerter/main.go)          *)
(***************************************************************************)

NoError == ""

\* A worker that keeps the document in the result when yaml.Marshal fails.
ConversionResult_KeepsDocument(job, order, marshalOk) ==
    LET parsed == ReadWorkflow(job.GhaYAML)
    IN  IF parsed.err
        THEN [JobID |-> job.JobID, ArgoYAML |-> <<>>,
              Error |-> "failed to parse GHA YAML using 'act'"]
        ELSE [JobID |-> job.JobID,
              ArgoYAML |-> <<convertGHAtoArgo(parsed.wf, order)>>,
              Error |-> IF marshalOk THEN "" ELSE "failed to marshal Argo YAML"]

\* Lines 83-98: the ConversionResult a worker builds for a job.  `order` is
\* the iteration order of the Jobs map inside convertGHAtoArgo, `marshalOk`
\* whether yaml.Marshal succeeds.
ConversionResult(job, order, marshalOk) ==
    LET parsed == ReadWorkflow(job.GhaYAML)
    IN  IF parsed.err
        THEN [JobID |-> job.JobID, ArgoYAML |-> <<>>,
              Error |-> "failed to parse GHA YAML using 'act'"]
        ELSE IF ~marshalOk
        THEN [JobID |-> job.JobID, ArgoYAML |-> <<>>,
              Error |-> "failed to marshal Argo YAML"]
        ELSE [JobID |-> job.JobID,
              ArgoYAML |-> <<convertGHAtoArgo(parsed.wf, order)>>,
              Error |-> NoError]

\* The orders in which the translator may visit the jobs of a body.
BodyOrders(body) == Orders(DOMAIN ReadWorkflow(body).wf.Jobs)

\* handleConvert as a function of the request, the id uuid.New() returns and
\* the queue at the select: the answer, the handler's jobID and the queue
\* afterwards.
ConvertAnswer(in, id, queue) ==
    IF in.method # "POST"
    THEN [status |-> 405, jobID |-> 0, queue |-> queue, out |-> <<>>]
    ELSE IF in.readErr
    THEN [status |-> 500, jobID |-> 0, queue |-> queue, out |-> <<>>]
    ELSE IF in.body = ""
    THEN [status |-> 400, jobID |-> 0, queue |-> queue, out |-> <<>>]
    ELSE LET job == [JobID |-> id, GhaYAML |-> in.body]
             sel == TrySend(queue, job)
         IN  IF sel.sent
             THEN [status |-> 202, jobID |-> id, queue |-> sel.queue,
                   out |-> <<[status |-> "processing", jobID |-> id]>>]
             ELSE [status |-> 503, jobID |-> id, queue |-> sel.queue, out |-> <<>>]

\* POST /convert
handleConvert(r) ==
    /\ mode = "async"
    /\ reqs[r].pc = "new"
    /\ Arrived(reqs, r)
    /\ \E in \in RequestInputs :
         LET ans == ConvertAnswer(in, NewID(r), JobQueue)
         IN  /\ JobQueue' = ans.queue
             /\ reqs' = [reqs EXCEPT ![r] =
                           [pc |-> "done", in |-> in, jobID |-> ans.jobID,
                            resultChan |-> 0, status |-> ans.status, out |-> ans.out]]
    /\ UNCHANGED <<mode, ResultStore, workers, poll, calls, received, stores>>
    /\ UNCHANGED transVars

\* A handler that forgets to look at the result's error.
GetResultAnswer_NoErrorCheck(method, id, store) ==
    IF method # "GET" THEN [status |-> 405, out |-> <<>>]
    ELSE IF id = 0 THEN [status |-> 400, out |-> <<>>]
    ELSE IF id \notin DOMAIN store
    THEN [status |-> 404, out |-> <<[status |-> "not_found"]>>]
    ELSE [status |-> 200, out |-> store[id].ArgoYAML]

\* handleGetResult as a function of the request and the store.
GetResultAnswer(method, id, store) ==
    IF method # "GET" THEN [status |-> 405, out |-> <<>>]
    ELSE IF id = 0 THEN [status |-> 400, out |-> <<>>]
    ELSE IF id \notin DOMAIN store
    THEN [status |-> 404, out |-> <<[status |-> "not_found"]>>]
    ELSE IF store[id].Error # NoError
    THEN [status |-> 500, out |-> <<"Failed to process job: ", store[id].Error>>]
    ELSE [status |-> 200, out |-> store[id].ArgoYAML]

\* GET /result/{jobID}
handleGetResult ==
    /\ mode = "async"
    /\ \E method \in {"GET", "POST"}, id \in PollIDs :
         LET ans == GetResultAnswer(method, id, ResultStore)
         IN  poll' = [method |-> method, id |-> id,
                      status |-> ans.status, out |-> ans.out]
    /\ UNCHANGED <<mode, JobQueue, ResultStore, workers, reqs, calls, received, stores>>
    /\ UNCHANGED transVars

Idle == [pc |-> "range", job |-> <<>>, result |-> <<>>]

\* Line 79: a worker receives the next job of the queue.
startWorkerPool_Range(w) ==
    /\ mode = "async"
    /\ workers[w].pc = "range"
    /\ CanReceive(JobQueue)
    /\ workers' = [workers EXCEPT ![w] =
                     [pc |-> "convert", job |-> <<ReceivedJob(JobQueue)>>, result |-> <<>>]]
    /\ JobQueue' = AfterReceive(JobQueue)
    /\ received' = Bump(received, JobKey(ReceivedJob(JobQueue)))
    /\ UNCHANGED <<mode, ResultStore, reqs, poll, calls, stores>>
    /\ UNCHANGED transVars

\* Lines 83-98: the worker translates its job and builds the result.
startWorkerPool_Convert(w) ==
    /\ mode = "async"
    /\ workers[w].pc = "convert"
    /\ LET job == workers[w].job[1]
       IN  /\ \E order \in BodyOrders(job.GhaYAML), marshalOk \in BOOLEAN :
                workers' = [workers EXCEPT ![w] =
                              [pc |-> "store", job |-> <<job>>,
                               result |-> <<ConversionResult(job, order, marshalOk)>>]]
           /\ calls' = Bump(calls, JobKey(job))
    /\ UNCHANGED <<mode, JobQueue, ResultStore, reqs, poll, received, stores>>
    /\ UNCHANGED transVars

\* A worker that drops the result of a failed translation.
AfterConvert_DropFailed(store, job, result) ==
    IF result.Error # ""
    THEN [store |-> store, stored |-> FALSE,
          next |-> [pc |-> "range", job |-> <<>>, result |-> <<>>]]
    ELSE [store |-> Store(store, job.JobID, result), stored |-> TRUE,
          next |-> [pc |-> "range", job |-> <<>>, result |-> <<>>]]

\* A worker that translates a failed job again instead of storing the failure.
AfterConvert_RetryFailed(store, job, result) ==
    IF result.Error # ""
    THEN [store |-> store, stored |-> FALSE,
          next |-> [pc |-> "convert", job |-> <<job>>, result |-> <<>>]]
    ELSE [store |-> Store(store, job.JobID, result), stored |-> TRUE,
          next |-> [pc |-> "range", job |-> <<>>, result |-> <<>>]]

\* What the worker does with a result it has built, and where it goes next
\* (line 101, then back to the range of line 79).
AfterConvert(store, job, result) ==
    [store |-> Store(store, job.JobID, result), stored |-> TRUE, next |-> Idle]

\* Line 101: the worker stores the result and loops.
startWorkerPool_Store(w) ==
    /\ mode = "async"
    /\ workers[w].pc = "store"
    /\ LET job == workers[w].job[1]
           eff == AfterConvert(ResultStore, job, workers[w].result[1])
       IN  /\ ResultStore' = eff.store
           /\ workers' = [workers EXCEPT ![w] = eff.next]
           /\ stores' = IF eff.stored THEN Bump(stores, JobKey(job)) ELSE stores
    /\ UNCHANGED <<mode, JobQueue, reqs, poll, calls, received>>
    /\ UNCHANGED transVars


(***************************************************************************)
(* The synchronous server (unnamed/part_000)                               *)
(***************************************************************************)

\* convertWorkflow: the result a worker sends back for a payload;
\* `marshalOk` is whether json.Marshal succeeds.
convertWorkflow(yamlData, order, marshalOk) ==
    LET parsed == ReadWorkflow(yamlData)
    IN  IF parsed.err
        THEN [Data |-> <<>>, Error |-> "parse YAML failed"]
        ELSE IF ~marshalOk
        THEN [Data |-> <<>>, Error |-> "marshal JSON failed"]
        ELSE [Data |-> <<SimplifiedWorkflow(parsed.wf, order)>>, Error |-> NoError]

\* Lines 159-170: the answer handleConversion writes for a result.
ConversionReply(result) ==
    IF result.Error # NoError
    THEN [status |-> 500, out |-> <<"conversion failed: ", result.Error>>]
    ELSE [status |-> 200, out |-> result.Data]

\* A handler that answers as soon as its job is enqueued, as the
\* asynchronous server's handler does, and never receives the result.
ConversionSubmit_NoWait(in, ch, queue) ==
    IF in.method # "POST"
    THEN [pc |-> "done", status |-> 405, resultChan |-> 0, queue |-> queue]
    ELSE IF in.readErr
    THEN [pc |-> "done", status |-> 400, resultChan |-> 0, queue |-> queue]
    ELSE IF in.body = ""
    THEN [pc |-> "done", status |-> 400, resultChan |-> 0, queue |-> queue]
    ELSE LET job == [Payload |-> in.body, ResultChan |-> ch]
             sel == TrySend(queue, job)
         IN  IF sel.sent
             THEN [pc |-> "done", status |-> 202, resultChan |-> ch, queue |-> sel.queue]
             ELSE [pc |-> "done", status |-> 503, resultChan |-> ch, queue |-> sel.queue]

\* A handler that answers an unreadable body as the asynchronous server's
\* handler does, with 500.
ConversionSubmit_ReadError500(in, ch, queue) ==
    IF in.method # "POST"
    THEN [pc |-> "done", status |-> 405, resultChan |-> 0, queue |-> queue]
    ELSE IF in.readErr
    THEN [pc |-> "done", status |-> 500, resultChan |-> 0, queue |-> queue]
    ELSE IF in.body = ""
    THEN [pc |-> "done", status |-> 400, resultChan |-> 0, queue |-> queue]
    ELSE LET job == [Payload |-> in.body, ResultChan |-> ch]
             sel == TrySend(queue, job)
         IN  IF sel.sent
             THEN [pc |-> "waiting", status |-> 0, resultChan |-> ch, queue |-> sel.queue]
             ELSE [pc |-> "done", status |-> 503, resultChan |-> ch, queue |-> sel.queue]

\* Lines 116-151 of handleConversion as a function of the request, the
\* channel it makes and the queue at the select: where the handler is
\* afterwards ("waiting" at the receive of line 157, or "done"), the answer
\* it has written if any, and the queue.
ConversionSubmit(in, ch, queue) ==
    IF in.method # "POST"
    THEN [pc |-> "done", status |-> 405, resultChan |-> 0, queue |-> queue]
    ELSE IF in.readErr
    THEN [pc |-> "done", status |-> 400, resultChan |-> 0, queue |-> queue]
    ELSE IF in.body = ""
    THEN [pc |-> "done", status |-> 400, resultChan |-> 0, queue |-> queue]
    ELSE LET job == [Payload |-> in.body, ResultChan |-> ch]
             sel == TrySend(queue, job)
         IN  IF sel.sent
             THEN [pc |-> "waiting", status |-> 0, resultChan |-> ch, queue |-> sel.queue]
             ELSE [pc |-> "done", status |-> 503, resultChan |-> ch, queue |-> sel.queue]

\* POST /api/v1/convert, up to the receive from resultChan.
handleConversion(r) ==
    /\ mode = "sync"
    /\ reqs[r].pc = "new"
    /\ Arrived(reqs, r)
    /\ \E in \in RequestInputs :
         LET sub == ConversionSubmit(in, NewID(r), JobQueue)
         IN  /\ JobQueue' = sub.queue
             /\ reqs' = [reqs EXCEPT ![r] =
                           [pc |-> sub.pc, in |-> in, jobID |-> 0,
                            resultChan |-> sub.resultChan, status |-> sub.status,
                            out |-> <<>>]]
    /\ UNCHANGED <<mode, ResultStore, workers, poll, calls, received, stores>>
    /\ UNCHANGED transVars

\* Line 52: a worker receives the next job of the queue.
StartWorkerPool_Range(w) ==
    /\ mode = "sync"
    /\ workers[w].pc = "range"
    /\ CanReceive(JobQueue)
    /\ workers' = [workers EXCEPT ![w] =
                     [pc |-> "convert", job |-> <<ReceivedJob(JobQueue)>>, result |-> <<>>]]
    /\ JobQueue' = AfterReceive(JobQueue)
    /\ received' = Bump(received, JobKey(ReceivedJob(JobQueue)))
    /\ UNCHANGED <<mode, ResultStore, reqs, poll, calls, stores>>
    /\ UNCHANGED transVars

\* Line 56: the worker converts the payload.
StartWorkerPool_Convert(w) ==
    /\ mode = "sync"
    /\ workers[w].pc = "convert"
    /\ LET job == workers[w].job[1]
       IN  /\ \E order \in BodyOrders(job.Payload), marshalOk \in BOOLEAN :
                workers' = [workers EXCEPT ![w] =
                              [pc |-> "send", job |-> <<job>>,
                               result |-> <<convertWorkflow(job.Payload, order, marshalOk)>>]]
           /\ calls' = Bump(calls, JobKey(job))
    /\ UNCHANGED <<mode, JobQueue, ResultStore, reqs, poll, received, stores>>
    /\ UNCHANGED transVars

\* One result channel shared by all requests: any waiting handler receives.
Receivers_AnyWaiting(job, rs) == {r \in Reqs : rs[r].pc = "waiting"}

\* The handlers a send on job.ResultChan can hand its value to: those
\* blocked in the receive of line 157 on that very channel.
Receivers(job, rs) ==
    {r \in Reqs : rs[r].pc = "waiting" /\ rs[r].resultChan = job.ResultChan}

\* Lines 59-62 and 157-170: the unbuffered send of the worker meets the
\* receive of the handler, which then writes its answer; the worker loops.
StartWorkerPool_Send(w) ==
    /\ mode = "sync"
    /\ workers[w].pc = "send"
    /\ LET job == workers[w].job[1]
           rep == ConversionReply(workers[w].result[1])
       IN  /\ \E r \in Receivers(job, reqs) :
                reqs' = [reqs EXCEPT ![r].pc = "done",
                                     ![r].status = rep.status,
                                     ![r].out = rep.out]
           /\ stores' = Bump(stores, JobKey(job))
    /\ workers' = [workers EXCEPT ![w] = Idle]
    /\ UNCHANGED <<mode, JobQueue, ResultStore, poll, calls, received>>
    /\ UNCHANGED transVars

(***************************************************************************)
(* The servers' specification                                              *)
(***************************************************************************)

NewReq == [pc |-> "new", in |-> [method |-> "", readErr |-> FALSE, body |-> ""],
           jobID |-> 0, resultChan |-> 0, status |-> 0, out |-> <<>>]

NoPoll == [method |-> "", id |-> 0, status |-> 0, out |-> <<>>]

NoWorkflow == [Name |-> <<>>, Jobs |-> << >>]

\* No text is being sanitized.
NoText == text = <<>> /\ labels = <<>>

PoolInit(m) ==
    /\ mode = m
    /\ JobQueue = <<>>
    /\ ResultStore = << >>
    /\ workers = [w \in 1..PoolSize(m) |-> Idle]
    /\ reqs = [r \in Reqs |-> NewReq]
    /\ poll = NoPoll
    /\ calls = [k \in Reqs |-> 0]
    /\ received = [k \in Reqs |-> 0]
    /\ stores = [k \in Reqs |-> 0]

\* After main has made the queue and the store and started the pool.
Init ==
    /\ \E m \in {"async", "sync"} : PoolInit(m)
    /\ ghaWF = NoWorkflow
    /\ argoWF = <<>>
    /\ NoText

Next ==
    \/ \E r \in Reqs : handleConvert(r)
    \/ \E w \in DOMAIN workers : startWorkerPool_Range(w)
    \/ \E w \in DOMAIN workers : startWorkerPool_Convert(w)
    \/ \E w \in DOMAIN workers : startWorkerPool_Store(w)
    \/ \E r \in Reqs : handleConversion(r)
    \/ \E w \in DOMAIN workers : StartWorkerPool_Range(w)
    \/ \E w \in DOMAIN workers : StartWorkerPool_Convert(w)
    \/ \E w \in DOMAIN workers : StartWorkerPool_Send(w)

Spec == Init /\ [][Next]_vars

\* The Go scheduler runs every goroutine that can run: a worker that can
\* take its next step eventually takes it.
WorkerFairness ==
    \A w \in 1..NumWorkers :
        /\ WF_vars(startWorkerPool_Range(w))
        /\ WF_vars(startWorkerPool_Convert(w))
        /\ WF_vars(startWorkerPool_Store(w))

SyncWorkerFairness ==
    \A w \in 1..MaxWorkers :
        /\ WF_vars(StartWorkerPool_Range(w))
        /\ WF_vars(StartWorkerPool_Convert(w))
        /\ WF_vars(StartWorkerPool_Send(w))

FairSpec == Spec /\ WorkerFairness /\ SyncWorkerFairness

\* The asynchronous server with its clients polling for results.  These
\* clients submit as many jobs as the queue holds.
PollReqs == 1..MaxQueue

PollInit ==
    /\ PoolInit("async")
    /\ ghaWF = NoWorkflow
    /\ argoWF = <<>>
    /\ NoText

PollNext ==
    \/ \E r \in PollReqs : handleConvert(r)
    \/ handleGetResult
    \/ \E w \in DOMAIN workers : startWorkerPool_Range(w)
    \/ \E w \in DOMAIN workers : startWorkerPool_Convert(w)
    \/ \E w \in DOMAIN workers : startWorkerPool_Store(w)

PollSpec == PollInit /\ [][PollNext]_vars


(***************************************************************************)
(* The translator on its own: convertGHAtoArgo applied to workflow models  *)
(* drawn from a bounded family.                                            *)
(***************************************************************************)

\* Most jobs of a workflow, and most steps of a job.
MaxJobs == 2
MaxSteps == 2

JobLower == <<"a">>
JobPunct == <<"a","_","b">>

JobIdPool == {JobA, JobB, JobLower, JobPunct}

StepPool ==
    {RunStep(<<"B">>, "make"),
     RunStep(<<>>, "make test"),
     UsesStep(<<"!">>, "actions/checkout@v3", ""),
     UsesStep(<<>>, "actions/setup-go@v3", "map[go-version:1.19]"),
     EmptyStep(<<>>)}

SelfHosted == <<"s","e","l","f","-","h","o","s","t","e","d">>

RunsOnPool == {<<>>, <<UbuntuLatest, SelfHosted>>, <<Ubuntu2004>>, <<SelfHosted, Ubuntu2204>>}

StepLists == UNION {[1..n -> StepPool] : n \in 0..MaxSteps}

\* The elements of a set as a sequence, in some fixed order.
RECURSIVE SeqOf(_)
SeqOf(S) ==
    IF S = {} THEN <<>>
    ELSE LET x == CHOOSE y \in S : TRUE IN <<x>> \o SeqOf(S \ {x})

\* The steps `steps` with their run and uses taken away.
Blank(steps) == [i \in 1..Len(steps) |-> EmptyStep(steps[i].Name)]

\* The workflow with the jobs `ids`, job j needing the jobs needs[j], every
\* job with the run-environment labels `runsOn` and the steps `steps`, but
\* for the jobs in `bare`, whose steps have neither run nor uses.
WorkflowModel(ids, needs, bare, runsOn, steps) ==
    [Name |-> <<"C","I">>,
     Jobs |-> [j \in ids |->
                 [Needs  |-> SeqOf(needs[j]),
                  RunsOn |-> runsOn,
                  Steps  |-> IF j \in bare THEN Blank(steps) ELSE steps]]]

\* The family holds the workflows whose jobs need each other in any way
\* (with no steps), and the workflows of independent jobs with any steps.
InFamily(ids, needs, bare, runsOn, steps) ==
    /\ \A j \in ids : j \notin needs[j]
    /\ IF \A j \in ids : needs[j] = {}
       THEN TRUE
       ELSE bare = {} /\ runsOn = <<>> /\ steps = <<>>

\* A workflow model of up to MaxJobs jobs is about to be translated; no
\* server runs.
InitT ==
    /\ PoolInit("off")
    /\ \E ids \in {S \in SUBSET JobIdPool : Cardinality(S) <= MaxJobs} :
         \E needs \in [ids -> SUBSET ids], bare \in SUBSET ids :
           \E runsOn \in RunsOnPool, steps \in StepLists :
             /\ InFamily(ids, needs, bare, runsOn, steps)
             /\ ghaWF = WorkflowModel(ids, needs, bare, runsOn, steps)
    /\ argoWF = <<>>
    /\ NoText

\* convertGHAtoArgo(ghaYAML) once the document is parsed.
Translate ==
    /\ mode = "off"
    /\ argoWF = <<>>
    /\ \E order \in Orders(DOMAIN ghaWF.Jobs) :
         argoWF' = <<convertGHAtoArgo(ghaWF, order)>>
    /\ UNCHANGED <<ghaWF, sanVars>>
    /\ UNCHANGED poolVars

NextT == Translate

SpecT == InitT /\ [][NextT]_vars


(***************************************************************************)
(* The sanitizer on its own: sanitizeName applied to a text drawn from a   *)
(* bounded family, and then to its own result.                             *)
(***************************************************************************)

\* Most characters of a text after its padding.
MaxText == 3

\* A lower-case letter, a capital, a digit, the dash, a punctuation mark, a
\* capital outside ASCII with an ASCII lower case and one without.
TextAlphabet == {"a", "B", "7", "-", "!", "U+0130", "U+00C9"}

ShortTexts == UNION {[1..n -> TextAlphabet] : n \in 0..MaxText}

\* n times the letter "a".
Pad(n) == [i \in 1..n |-> "a"]

\* The texts: a short text, alone or after a run of letters that brings it
\* to the length the sanitizer truncates at.
PadLens == {0} \cup ((MaxNameLen - MaxText)..MaxNameLen)

InitS ==
    /\ PoolInit("off")
    /\ ghaWF = NoWorkflow
    /\ argoWF = <<>>
    /\ \E n \in PadLens, t \in ShortTexts : text = Pad(n) \o t
    /\ labels = <<>>

\* sanitizeName(text)
SanitizeText ==
    /\ mode = "off"
    /\ labels = <<>>
    /\ labels' = <<sanitizeName(text)>>
    /\ UNCHANGED <<text, ghaWF, argoWF>>
    /\ UNCHANGED poolVars

\* sanitizeName applied to the label it returned.
SanitizeLabel ==
    /\ mode = "off"
    /\ Len(labels) = 1
    /\ labels' = Append(labels, sanitizeName(labels[1]))
    /\ UNCHANGED <<text, ghaWF, argoWF>>
    /\ UNCHANGED poolVars

NextS == SanitizeText \/ SanitizeLabel

SpecS == InitS /\ [][NextS]_vars


(***************************************************************************)
(* Properties                                                              *)
(***************************************************************************)

Range(f) == {f[i] : i \in DOMAIN f}

\* The tasks of the DAG templates of a document.
DagTasksOf(doc) ==
    UNION {Range(t.DAG[1].Tasks) : t \in {u \in Range(doc.Templates) : u.DAG # <<>>}}

\* The job ids of a workflow sanitize to pairwise distinct names.
DistinctJobNames(wf) ==
    \A j, k \in DOMAIN wf.Jobs : sanitizeName(j) = sanitizeName(k) => j = k

\* C10: for every job of a translated workflow with a DAG (even one whose
\* job ids stay distinct when sanitized), the job has a DAG task named by
\* its sanitized id whose dependencies are the sanitized ids of the jobs it
\* needs, so that every dependency names a task of the DAG.  Violated by
\* jobs {A, B} with B.needs = {A}: the code copies the needs unsanitized.
C10_DependenciesAreSanitizedNeeds ==
    (argoWF # <<>> /\ Cardinality(DOMAIN ghaWF.Jobs) > 1 /\ DistinctJobNames(ghaWF)) =>
        LET tasks == DagTasksOf(argoWF[1])
        IN  /\ Cardinality(tasks) = Cardinality(DOMAIN ghaWF.Jobs)
            /\ \A j \in DOMAIN ghaWF.Jobs :
                 \E t \in tasks :
                    /\ t.Name = sanitizeName(j)
                    /\ Range(t.Dependencies)
                         = {sanitizeName(n) : n \in Range(ghaWF.Jobs[j].Needs)}
            /\ \A t \in tasks : \A d \in Range(t.Dependencies) :
                 \E u \in tasks : u.Name = d


\* The request passed the checks of its handler and reached the select.
Submitted(r) ==
    /\ reqs[r].pc # "new"
    /\ reqs[r].in.method = "POST" /\ ~reqs[r].in.readErr /\ reqs[r].in.body # ""

\* The select of request r sent its job into the queue.
Enqueued(r) == Submitted(r) /\ reqs[r].status # 503

\* The select of request r took the default branch.
Rejected(r) == Submitted(r) /\ reqs[r].status = 503

\* Translating the body of request r fails in the parser.
FailingBody(r) == ReadWorkflow(reqs[r].in.body).err

\* The job of request r has yielded its result: stored under the job's id
\* (asynchronous server), or delivered to the call (synchronous server).
Yielded(r) ==
    IF mode = "async"
    THEN reqs[r].jobID \in DOMAIN ResultStore
         /\ ResultStore[reqs[r].jobID].JobID = reqs[r].jobID
    ELSE reqs[r].pc = "done" /\ reqs[r].status \in {200, 500}

\* C1: under fair scheduling of the workers, every job a submit has enqueued
\* eventually yields a result for that job (stored under its id, or
\* delivered to the submitting call), whether its translation succeeds or
\* fails.
C1_AcceptedJobYieldsResult == \A r \in Reqs : Enqueued(r) ~> Yielded(r)

\* A failed job and a successful one have both yielded their results.
C1_Witness ==
    \E r1, r2 \in Reqs :
        /\ Enqueued(r1) /\ Yielded(r1) /\ FailingBody(r1)
        /\ Enqueued(r2) /\ Yielded(r2) /\ ~FailingBody(r2)
        /\ reqs[r2].status \in {200, 202}

\* The step in which the handler of request r runs its select.
SelectStep(r) == reqs[r].pc = "new" /\ Submitted(r)'

\* C2: a submit never waits for queue space, in either server: its select
\* sends the job exactly when the queue holds fewer than MaxQueue jobs and
\* otherwise answers 503 at once, and the handler of an arrived request can
\* always run (it is never blocked on the queue).
C2_SubmitNeverWaits ==
    /\ [][\A r \in Reqs : SelectStep(r) =>
            IF Len(JobQueue) < MaxQueue
            THEN /\ Enqueued(r)'
                 /\ Len(JobQueue') = Len(JobQueue) + 1
                 /\ SubSeq(JobQueue', 1, Len(JobQueue)) = JobQueue
            ELSE /\ Rejected(r)' /\ reqs'[r].pc = "done"
                 /\ JobQueue' = JobQueue]_vars
    /\ [](\A r \in Reqs : (reqs[r].pc = "new" /\ Arrived(reqs, r)) =>
            ENABLED (handleConvert(r) \/ handleConversion(r)))

\* A submit was rejected while the queue was full and another one is still
\* in the queue.
C2_Witness ==
    \E r1, r2 \in Reqs :
        /\ Rejected(r1) /\ Enqueued(r2)
        /\ Len(JobQueue) = MaxQueue

\* C3: the queue never holds more than MaxQueue jobs, and when MaxQueue + 1
\* submits have run their select and no worker has received a job, at most
\* MaxQueue of them were accepted and at least one was rejected.
C3_QueueBounded ==
    /\ Len(JobQueue) <= MaxQueue
    /\ ((\A k \in Reqs : received[k] = 0)
          /\ Cardinality({r \in Reqs : Submitted(r)}) >= MaxQueue + 1)
        => /\ Cardinality({r \in Reqs : Enqueued(r)}) <= MaxQueue
           /\ Cardinality({r \in Reqs : Rejected(r)}) >= 1

\* MaxQueue + 1 submits against a stalled pool: MaxQueue accepted, one not.
C3_Witness ==
    /\ \A k \in Reqs : received[k] = 0
    /\ Cardinality({r \in Reqs : Submitted(r)}) = MaxQueue + 1
    /\ Cardinality({r \in Reqs : Enqueued(r)}) = MaxQueue
    /\ Cardinality({r \in Reqs : Rejected(r)}) = 1

\* The answers the synchronous server can give for a payload.
SyncReplies(body) ==
    {ConversionReply(convertWorkflow(body, order, marshalOk)) :
        order \in BodyOrders(body), marshalOk \in BOOLEAN}

\* C4: in the synchronous server every accepted call stays blocked, with no
\* answer, until a worker has converted that call's own job, and then
\* answers with exactly the result that worker computed from the call's own
\* payload.
C4_SyncCallGetsOwnResult ==
    /\ [](mode = "sync" => \A r \in Reqs : Enqueued(r) =>
            /\ reqs[r].pc \in {"waiting", "done"}
            /\ reqs[r].pc = "waiting" => (reqs[r].status = 0 /\ reqs[r].out = <<>>)
            /\ reqs[r].pc = "done" =>
                 /\ calls[reqs[r].resultChan] = 1
                 /\ [status |-> reqs[r].status, out |-> reqs[r].out]
                        \in SyncReplies(reqs[r].in.body))
    /\ [][mode = "sync" => \A r \in Reqs :
            (reqs[r].pc = "waiting" /\ reqs'[r].pc # "waiting") =>
               \E w \in DOMAIN workers :
                  /\ workers[w].pc = "send"
                  /\ workers[w].job[1].ResultChan = reqs[r].resultChan
                  /\ workers[w].job[1].Payload = reqs[r].in.body
                  /\ reqs'[r].pc = "done"
                  /\ [status |-> reqs'[r].status, out |-> reqs'[r].out]
                        = ConversionReply(workers[w].result[1])
                  /\ workers'[w].pc = "range"]_vars

\* Two concurrent calls with different payloads have both returned, one
\* while the other was still waiting.
C4_Witness ==
    /\ mode = "sync"
    /\ \E r1, r2 \in Reqs :
        /\ reqs[r1].in.body = "two" /\ reqs[r1].pc = "done" /\ reqs[r1].status = 200
        /\ reqs[r2].in.body = "bad" /\ reqs[r2].pc = "waiting"
        /\ r2 < r1


\* The jobs the workers hold, and the ids of the jobs in the queue.
HeldJobs == {workers[w].job[1] : w \in {v \in DOMAIN workers : workers[v].job # <<>>}}
QueuedIDs == {JobQueue[i].JobID : i \in DOMAIN JobQueue}

\* A job of a failing body has its failure stored.
FailureStored ==
    \E r \in Reqs : Enqueued(r) /\ FailingBody(r) /\ reqs[r].jobID \in DOMAIN ResultStore

\* C5: in the asynchronous server the translator is invoked at most once
\* per job (no retry); a job whose translation fails gets a stored result
\* under its id with the error set and no document; all NumWorkers workers
\* stay in their loop, the one that stored a result being back at the
\* receive; and, the workers being scheduled fairly, a job enqueued when a
\* failure is already stored is still processed and stored.
C5_FailureStoredWorkerContinues ==
    /\ [](mode = "async" =>
            /\ \A k \in Reqs : calls[k] <= 1
            /\ \A r \in Reqs : (Enqueued(r) /\ FailingBody(r) /\ Yielded(r)) =>
                  /\ ResultStore[reqs[r].jobID].Error # NoError
                  /\ ResultStore[reqs[r].jobID].ArgoYAML = <<>>
            /\ DOMAIN workers = 1..NumWorkers
            /\ \A w \in DOMAIN workers : workers[w].pc \in {"range", "convert", "store"})
    /\ [][mode = "async" => \A w \in DOMAIN workers :
            (workers[w].pc = "store" /\ workers'[w] # workers[w]) =>
               /\ workers'[w] = Idle
               /\ workers[w].job[1].JobID \in DOMAIN ResultStore'
               /\ ResultStore'[workers[w].job[1].JobID] = workers[w].result[1]]_vars
    /\ \A r \in Reqs :
          (mode = "async" /\ FailureStored /\ Enqueued(r)) ~> Yielded(r)

\* A failure is stored and a job submitted after the failing one is stored
\* with its document.
C5_Witness ==
    /\ mode = "async"
    /\ \E r1, r2 \in Reqs :
        /\ r1 < r2
        /\ Enqueued(r1) /\ FailingBody(r1) /\ Yielded(r1)
        /\ ResultStore[reqs[r1].jobID].Error # NoError
        /\ Enqueued(r2) /\ Yielded(r2)
        /\ ResultStore[reqs[r2].jobID].Error = NoError

\* C6: in the asynchronous server each enqueued job is received by at most
\* one worker, and by exactly one once its result is stored; no two workers
\* hold the same job, a job is never in the queue twice or both queued and
\* held or stored; and each job id is written to the store exactly once.
C6_OneWorkerOneWritePerJob ==
    mode = "async" =>
        /\ \A k \in Reqs : received[k] <= 1 /\ stores[k] <= 1
        /\ \A k \in DOMAIN ResultStore : received[k] = 1 /\ stores[k] = 1
        /\ \A v, w \in DOMAIN workers :
              (v # w /\ workers[v].job # <<>> /\ workers[w].job # <<>>)
                 => workers[v].job[1].JobID # workers[w].job[1].JobID
        /\ \A i, j \in DOMAIN JobQueue : i # j => JobQueue[i].JobID # JobQueue[j].JobID
        /\ \A k \in QueuedIDs : received[k] = 0 /\ k \notin DOMAIN ResultStore
        /\ \A job \in HeldJobs :
              received[job.JobID] = 1 /\ job.JobID \notin DOMAIN ResultStore

\* Both workers hold a job while a third job is stored.
C6_Witness ==
    /\ mode = "async"
    /\ \E v, w \in DOMAIN workers :
          v # w /\ workers[v].job # <<>> /\ workers[w].job # <<>>
    /\ DOMAIN ResultStore # {}

\* C7: a stored result is stable: once GET /result/{id} can answer with a
\* result for an id (200 or 500), every later step, whatever it is, leaves
\* the answer to GET /result/{id} the same; and what a poll has answered
\* for its id stays what a poll answers.
C7_StoredResultStable ==
    /\ [][\A id \in PollIDs :
            GetResultAnswer("GET", id, ResultStore).status \in {200, 500} =>
               GetResultAnswer("GET", id, ResultStore')
                  = GetResultAnswer("GET", id, ResultStore)]_vars
    /\ []((poll.method = "GET" /\ poll.status \in {200, 500}) =>
            GetResultAnswer("GET", poll.id, ResultStore)
               = [status |-> poll.status, out |-> poll.out])

\* A poll was answered with a result, and a result stored after it is there.
C7_Witness ==
    /\ poll.method = "GET" /\ poll.status = 200
    /\ \E k \in DOMAIN ResultStore : k > poll.id


\* The step in which the select of request r takes the default branch.
RejectStep(r) == reqs[r].pc = "new" /\ Rejected(r)'

\* No trace of the job of request r: not queued, not held, never received,
\* translated, stored or sent.
NoTraceOfJob(r) ==
    /\ \A i \in DOMAIN JobQueue : JobKey(JobQueue[i]) # NewID(r)
    /\ \A job \in HeldJobs : JobKey(job) # NewID(r)
    /\ NewID(r) \notin DOMAIN ResultStore
    /\ received[NewID(r)] = 0 /\ calls[NewID(r)] = 0 /\ stores[NewID(r)] = 0

\* C8 as stated: when a submit is rejected as queue-full no job was created
\* for it: no job id and no completion channel is allocated, the queue and
\* the store are unchanged and no result ever appears for the request.
\* (Violated: both handlers create the job, with its id or channel, before
\* the select.)
C8_NoJobCreatedOnReject ==
    /\ [][\A r \in Reqs : RejectStep(r) =>
            /\ reqs'[r].jobID = 0 /\ reqs'[r].resultChan = 0
            /\ JobQueue' = JobQueue /\ ResultStore' = ResultStore]_vars
    /\ [](\A r \in Reqs : Rejected(r) => NoTraceOfJob(r))

\* C8 amended: when a submit is rejected as queue-full, the job created for
\* it (with a fresh job id, or a fresh completion channel) is discarded:
\* the queue and the store are unchanged, the answer is 503 and carries no
\* id, and the job is never queued, received, translated, stored or sent.
C8_RejectedJobDiscarded ==
    /\ [][\A r \in Reqs : RejectStep(r) =>
            /\ reqs'[r].jobID = (IF mode = "async" THEN NewID(r) ELSE 0)
            /\ reqs'[r].resultChan = (IF mode = "sync" THEN NewID(r) ELSE 0)
            /\ reqs'[r].pc = "done" /\ reqs'[r].out = <<>>
            /\ JobQueue' = JobQueue /\ ResultStore' = ResultStore]_vars
    /\ [](\A r \in Reqs : Rejected(r) => NoTraceOfJob(r))

\* A rejected submit, while the jobs accepted around it have been stored.
C8_Witness ==
    \E r \in Reqs :
        /\ Rejected(r)
        /\ JobQueue = <<>> /\ HeldJobs = {}
        /\ \A q \in Reqs \ {r} : Enqueued(q) /\ Yielded(q)

\* C9: a GET poll for a job id answers 404 not_found exactly when no result
\* is stored under the id, which is the case for an id never issued and for
\* a job still queued or held by a worker; 200 with the stored document
\* when the stored result has no error; 500 when it carries one; and a
\* request that is not a GET answers 405.
C9_PollAnswers ==
    /\ [][poll' # poll =>
            LET p == poll'
                stored == p.id \in DOMAIN ResultStore
            IN  /\ p.method # "GET" => p.status = 405
                /\ (p.method = "GET" /\ p.id # 0) =>
                      /\ p.status = 404 <=> ~stored
                      /\ p.status = 404 => p.out = <<[status |-> "not_found"]>>
                      /\ (stored /\ ResultStore[p.id].Error = NoError) =>
                            (p.status = 200 /\ p.out = ResultStore[p.id].ArgoYAML
                               /\ p.out # <<>>)
                      /\ (stored /\ ResultStore[p.id].Error # NoError) =>
                            p.status = 500]_vars
    /\ [](/\ \A k \in QueuedIDs : k \notin DOMAIN ResultStore
          /\ \A job \in HeldJobs : job.JobID \notin DOMAIN ResultStore
          /\ \A r \in Reqs : ~Enqueued(r) => NewID(r) \notin DOMAIN ResultStore
          /\ NumReqs + 1 \notin DOMAIN ResultStore)

\* A poll for a job a worker holds with its result built but not yet stored
\* was answered 404, while another job's failure is stored.
C9_Witness ==
    /\ poll.method = "GET" /\ poll.status = 404
    /\ \E job \in HeldJobs : job.JobID = poll.id
    /\ \E w \in DOMAIN workers : workers[w].pc = "store" /\ workers[w].job[1].JobID = poll.id
    /\ \E k \in DOMAIN ResultStore : ResultStore[k].Error # NoError


\* C12: sanitizeName is idempotent: applied to the label it returned for a
\* text, it returns that label again.  Violated by the code for a text with
\* no usable character ("!" gives "", and "" gives "unnamed") and for a
\* text whose 63rd character after stripping is a "-" (the truncation
\* leaves the "-" at the end, the second application strips it).
C12_SanitizeIdempotent ==
    Len(labels) = 2 => labels[2] = labels[1]

\* A DNS-1123 label: 1 to MaxNameLen characters of [a-z0-9-], the first and
\* the last not a "-".
DNSLabel(s) ==
    /\ Len(s) >= 1 /\ Len(s) <= MaxNameLen
    /\ \A i \in 1..Len(s) : DNSSafeChar(s[i])
    /\ s[1] # "-" /\ s[Len(s)] # "-"

\* C13: for every text, sanitizeName returns a DNS-label-safe identifier:
\* at most 63 characters of [a-z0-9-], never empty, neither beginning nor
\* ending with "-".  Violated by the code: "!" gives the empty label, and
\* a truncated label can end with "-".
C13_SanitizeReturnsDNSLabel ==
    labels # <<>> => DNSLabel(labels[1])


\* The templates of a document that hold a DAG.
DagTemplatesOf(doc) == {t \in Range(doc.Templates) : t.DAG # <<>>}

\* C11: for a workflow model with exactly one job, the entrypoint of the
\* translated document is the sanitized id of that job, which names a
\* steps template of the document, and the document holds no DAG template.
C11_OneJobEntrypointNoDag ==
    (argoWF # <<>> /\ Cardinality(DOMAIN ghaWF.Jobs) = 1) =>
        /\ \A j \in DOMAIN ghaWF.Jobs :
              /\ argoWF[1].Entrypoint = sanitizeName(j)
              /\ \E t \in Range(argoWF[1].Templates) :
                    t.Name = sanitizeName(j) /\ t.Script = <<>> /\ t.DAG = <<>>
        /\ DagTemplatesOf(argoWF[1]) = {}

\* A workflow of one job with two steps that are not skipped is translated.
C11_Witness ==
    /\ argoWF # <<>>
    /\ Cardinality(DOMAIN ghaWF.Jobs) = 1
    /\ Len(argoWF[1].Templates) = 3


\* A step with neither run nor uses: the translator skips it.
Skipped(ghaStep) == ghaStep.Run = "" /\ ghaStep.Uses = ""

\* The jobs of a workflow whose steps are all skipped.
EmptyJobs(wf) ==
    {j \in DOMAIN wf.Jobs :
        \A i \in 1..Len(wf.Jobs[j].Steps) : Skipped(wf.Jobs[j].Steps[i])}

\* The places of a document's steps templates (one per job), and of those
\* among them that no script template follows: a job's script templates
\* come right after its steps template.
StepsPlaces(doc) ==
    {p \in 1..Len(doc.Templates) :
        doc.Templates[p].Script = <<>> /\ doc.Templates[p].DAG = <<>>}

LonePlaces(doc) ==
    {p \in StepsPlaces(doc) :
        IF p = Len(doc.Templates) THEN TRUE
        ELSE doc.Templates[p + 1].Script = <<>>}

\* C14: a job whose steps all have neither run nor uses produces no script
\* template, and the document still holds that job's steps template: the
\* document has one steps template per job, those followed by no script
\* template are as many as the jobs with only skipped steps, and each such
\* job has one of them under its sanitized id.
C14_EmptyJobKeepsStepsTemplate ==
    argoWF # <<>> =>
        LET doc == argoWF[1]
        IN  /\ Cardinality(StepsPlaces(doc)) = Cardinality(DOMAIN ghaWF.Jobs)
            /\ Cardinality(LonePlaces(doc)) = Cardinality(EmptyJobs(ghaWF))
            /\ \A j \in EmptyJobs(ghaWF) :
                  \E p \in LonePlaces(doc) :
                     /\ doc.Templates[p].Name = sanitizeName(j)
                     /\ Len(doc.Templates[p].Steps) = Len(ghaWF.Jobs[j].Steps)

\* A job with only skipped steps is translated next to a job that has
\* script templates.
C14_Witness ==
    /\ argoWF # <<>>
    /\ \E j \in EmptyJobs(ghaWF) : Len(ghaWF.Jobs[j].Steps) = MaxSteps
    /\ \E k \in DOMAIN ghaWF.Jobs : k \notin EmptyJobs(ghaWF)
    /\ \E t \in Range(argoWF[1].Templates) : t.Script # <<>>


\* A document with the order of its template entries disregarded, and the
\* order of the tasks inside a DAG template as well.
Unordered(doc) ==
    [GenerateName |-> doc.GenerateName,
     Entrypoint   |-> doc.Entrypoint,
     Parallelism  |-> doc.Parallelism,
     Templates    |-> {[Name   |-> t.Name,
                        Steps  |-> t.Steps,
                        Script |-> t.Script,
                        Tasks  |-> IF t.DAG = <<>> THEN {} ELSE Range(t.DAG[1].Tasks)] :
                       t \in Range(doc.Templates)}]

\* C15: translating the same workflow again, in whatever order the Jobs map
\* is iterated, yields a document identical to the first once the order of
\* the template entries is disregarded (here the order of the DAG tasks is
\* disregarded too).  Violated by the code for the jobs A and a with
\* A.needs = [a]: both write jobDependencies["a"], the later one wins, and
\* the dependencies of the tasks depend on the iteration order.
C15_TranslationDeterministic ==
    argoWF # <<>> =>
        \A order \in Orders(DOMAIN ghaWF.Jobs) :
            Unordered(convertGHAtoArgo(ghaWF, order)) = Unordered(argoWF[1])


\* C16: a synchronous submit answers with exactly one status: 405 for a
\* method other than POST; otherwise 400 for an unreadable or an empty
\* body; otherwise 503 when the queue is full at the select; otherwise,
\* once a worker hands over the job's result, 500 when the translation
\* failed and 200 with the translated document when it succeeded.  An
\* answer written is never changed.
C16_SyncSubmitStatus ==
    /\ [][mode = "sync" => \A r \in Reqs :
            (reqs[r].pc = "new" /\ reqs'[r].pc # "new") =>
               LET in == reqs'[r].in
               IN  IF in.method # "POST"
                   THEN reqs'[r].pc = "done" /\ reqs'[r].status = 405
                   ELSE IF in.readErr \/ in.body = ""
                   THEN reqs'[r].pc = "done" /\ reqs'[r].status = 400
                   ELSE IF Len(JobQueue) >= MaxQueue
                   THEN reqs'[r].pc = "done" /\ reqs'[r].status = 503
                   ELSE reqs'[r].pc = "waiting" /\ reqs'[r].status = 0]_vars
    /\ [][mode = "sync" => \A r \in Reqs :
            (reqs[r].pc = "waiting" /\ reqs'[r].pc # "waiting") =>
               \E w \in DOMAIN workers :
                  /\ workers[w].pc = "send"
                  /\ workers[w].job[1].ResultChan = reqs[r].resultChan
                  /\ reqs'[r].pc = "done"
                  /\ IF workers[w].result[1].Error # NoError
                     THEN reqs'[r].status = 500
                     ELSE /\ reqs'[r].status = 200
                          /\ reqs'[r].out = workers[w].result[1].Data
                          /\ reqs'[r].out # <<>>]_vars
    /\ [][mode = "sync" => \A r \in Reqs :
            reqs[r].pc = "done" => reqs'[r] = reqs[r]]_vars
    /\ [](mode = "sync" => \A r \in Reqs :
            /\ reqs[r].pc = "done" => reqs[r].status \in {200, 400, 405, 500, 503}
            /\ (reqs[r].pc = "done" /\ Enqueued(r) /\ FailingBody(r)) => reqs[r].status = 500)

\* A call was refused with 503 on the full queue, and the two calls whose
\* jobs filled it were answered 500 and 200.
C16_Witness ==
    /\ mode = "sync"
    /\ \E r1, r2, r3 \in Reqs :
          /\ reqs[r1].pc = "done" /\ reqs[r1].status = 500
          /\ reqs[r2].pc = "done" /\ reqs[r2].status = 200
          /\ reqs[r3].pc = "done" /\ reqs[r3].status = 503


\* The names of the script templates of a document, and of all its
\* templates.
ScriptNamesOf(doc) == {t.Name : t \in {u \in Range(doc.Templates) : u.Script # <<>>}}
TemplateNamesOf(doc) == {t.Name : t \in Range(doc.Templates)}

\* C17: in a translated document every step reference of a steps template
\* names a script template of the document, and the template reference of
\* every DAG task names a template of the document.  Violated by the code
\* for a job with a step that has neither run nor uses: the reference is
\* appended before the step is skipped.
C17_NoDanglingReferences ==
    argoWF # <<>> =>
        /\ \A t \in Range(argoWF[1].Templates) :
              \A i \in 1..Len(t.Steps) : \A k \in 1..Len(t.Steps[i]) :
                 t.Steps[i][k].Template \in ScriptNamesOf(argoWF[1])
        /\ \A task \in DagTasksOf(argoWF[1]) :
              task.Template \in TemplateNamesOf(argoWF[1])


\* C18: in a translated document the names of the templates are pairwise
\* distinct.  Violated by the code for a job with two unnamed steps (both
\* templates are named <job>-unnamed), for job ids that differ in letter
\* case or punctuation only, and for a job a with a step B next to a job
\* a_b.
C18_TemplateNamesDistinct ==
    argoWF # <<>> =>
        \A p, q \in 1..Len(argoWF[1].Templates) :
            p # q => argoWF[1].Templates[p].Name # argoWF[1].Templates[q].Name


\* The document has the synthetic DAG template and starts at it.
HasMainDag(doc) ==
    /\ doc.Entrypoint = MainDag
    /\ \E t \in DagTemplatesOf(doc) : t.Name = MainDag

\* The document has no DAG template.
HasNoDag(doc) == DagTemplatesOf(doc) = {}

\* The DAG templates of the document are one template, the last entry,
\* with one task per job: the tasks are named, and refer to, the sanitized
\* job ids taken in some order.
OneTaskPerJob(doc, wf) ==
    /\ \A p \in 1..Len(doc.Templates) :
          doc.Templates[p].DAG # <<>> <=> p = Len(doc.Templates)
    /\ LET tasks == doc.Templates[Len(doc.Templates)].DAG[1].Tasks
       IN  \E order \in Orders(DOMAIN wf.Jobs) :
              /\ Len(tasks) = Len(order)
              /\ \A i \in 1..Len(order) :
                    /\ tasks[i].Name = sanitizeName(order[i])
                    /\ tasks[i].Template = sanitizeName(order[i])

\* C19 as claimed: the synthetic DAG template is produced, and made the
\* entrypoint, if and only if the workflow has more than one job, and then
\* holds one task per job.  Violated by the workflow without jobs, which
\* falls into the branch written for several jobs (lines 315-335) and gets
\* the DAG template, without a task, as its entrypoint.
C19_DagIffSeveralJobs ==
    argoWF # <<>> =>
        IF Cardinality(DOMAIN ghaWF.Jobs) > 1
        THEN HasMainDag(argoWF[1]) /\ OneTaskPerJob(argoWF[1], ghaWF)
        ELSE HasNoDag(argoWF[1])


\* The steps of a job that are not skipped, in their order.
NotSkipped(ghaStep) == ~Skipped(ghaStep)
KeptSteps(ghaJob) == SelectSeq(ghaJob.Steps, NotSkipped)

\* The place in the document of the steps template of the n-th job
\* translated: each job adds its steps template and then one script
\* template per step that is not skipped.
RECURSIVE PlaceOf(_, _, _)
PlaceOf(wf, order, n) ==
    IF n = 1 THEN 1
    ELSE PlaceOf(wf, order, n - 1) + 1 + Len(KeptSteps(wf.Jobs[order[n - 1]]))

\* The Image Mapper's result for the first run-environment label of a job,
\* or the default image for a job without labels.
DefaultImage == "alpine:latest"
MappedImage(ghaJob) ==
    IF ghaJob.RunsOn = <<>> THEN DefaultImage
    ELSE mapRunsOnToImage(Head(ghaJob.RunsOn))

\* The jobs being translated in some order, the script template of every
\* step that is not skipped has the image Expected gives for it.
ScriptImagesAre(doc, wf, Expected(_, _)) ==
    \E order \in Orders(DOMAIN wf.Jobs) :
        \A n \in 1..Len(order) :
            LET q    == PlaceOf(wf, order, n)
                job  == wf.Jobs[order[n]]
                kept == KeptSteps(job)
            IN  /\ q + Len(kept) <= Len(doc.Templates)
                /\ doc.Templates[q].Name = sanitizeName(order[n])
                /\ doc.Templates[q].Script = <<>>
                /\ \A k \in 1..Len(kept) :
                      /\ doc.Templates[q + k].Script # <<>>
                      /\ doc.Templates[q + k].Script[1].Image = Expected(job, kept[k])

ImageAsClaimed(ghaJob, ghaStep) == MappedImage(ghaJob)

ImageAsBuilt(ghaJob, ghaStep) ==
    IF ghaStep.Run # "" THEN MappedImage(ghaJob) ELSE DefaultImage

\* C20 as claimed: the script template of every step that is not skipped,
\* run step or uses step, has the image the Image Mapper gives for the
\* job's first runsOn label (the default image for a job without labels).
\* Violated by a uses step of a job that runs on ubuntu-latest.
C20_ScriptImageIsMapped ==
    argoWF # <<>> => ScriptImagesAre(argoWF[1], ghaWF, ImageAsClaimed)

\* C20, amended: the script template of a run step has the image the
\* Image Mapper gives for the job's first runsOn label (the default image
\* for a job without labels); the script template of a uses step has the
\* default image whatever the job runs on.
C20_RunImageMappedUsesImageDefault ==
    argoWF # <<>> => ScriptImagesAre(argoWF[1], ghaWF, ImageAsBuilt)

\* A job whose first label is ubuntu-latest and whose second is another one
\* is translated, with a run step and a uses step.
C20_Witness ==
    /\ argoWF # <<>>
    /\ \E j \in DOMAIN ghaWF.Jobs :
          /\ ghaWF.Jobs[j].RunsOn = <<UbuntuLatest, SelfHosted>>
          /\ Len(KeptSteps(ghaWF.Jobs[j])) = 2
          /\ ghaWF.Jobs[j].Steps[1].Run # ""
          /\ ghaWF.Jobs[j].Steps[2].Uses # ""
    /\ \E t \in Range(argoWF[1].Templates) :
          t.Script # <<>> /\ t.Script[1].Image = "ubuntu:22.04"
    /\ \E t \in Range(argoWF[1].Templates) :
          t.Script # <<>> /\ t.Script[1].Image = DefaultImage


\* The places (from 1) of the steps of a job that are not skipped.
KeptPlaces(ghaJob) ==
    LET Keep(i) == NotSkipped(ghaJob.Steps[i])
    IN  SelectSeq([i \in 1..Len(ghaJob.Steps) |-> i], Keep)

\* The name claimed for the script template of the step at index i (from
\* 0) of the job translated under jobTemplateName.
ClaimedStepTemplateName(jobTemplateName, ghaStep, i) ==
    jobTemplateName \o <<"-">> \o
        (IF ghaStep.Name = <<>> THEN StepIndexName(i)
         ELSE IF sanitizeName(ghaStep.Name) = <<>> THEN StepIndexName(i)
         ELSE sanitizeName(ghaStep.Name))

\* C21: the script template of the step at index i of a job is named
\* <jobTemplateName>-<sanitized step name> when the step has a name, and
\* <jobTemplateName>-step-<i> when the step has no name or its name
\* sanitizes to nothing.  Violated by the code for a step without a name:
\* sanitizeName("") is "unnamed", so the template is <jobTemplateName>-unnamed.
C21_StepTemplateNames ==
    argoWF # <<>> =>
        \E order \in Orders(DOMAIN ghaWF.Jobs) :
            \A n \in 1..Len(order) :
                LET q    == PlaceOf(ghaWF, order, n)
                    job  == ghaWF.Jobs[order[n]]
                    kept == KeptPlaces(job)
                IN  /\ q + Len(kept) <= Len(argoWF[1].Templates)
                    /\ argoWF[1].Templates[q].Name = sanitizeName(order[n])
                    /\ \A k \in 1..Len(kept) :
                          argoWF[1].Templates[q + k].Name =
                             ClaimedStepTemplateName(sanitizeName(order[n]),
                                                     job.Steps[kept[k]], kept[k] - 1)


\* The job of request x was enqueued before the job of request y: the
\* handlers run their selects in the order of the requests' numbers.
EnqueuedBefore(x, y) == x < y /\ Enqueued(x) /\ Enqueued(y)

\* C22: the queue is FIFO, in both servers: of two enqueued jobs the one
\* enqueued first is received by a worker first (the later one is never
\* received while the earlier one is still queued), the queue holds the
\* jobs in the order they were enqueued, and a receive takes the job that
\* has been queued longest.
C22_QueueIsFIFO ==
    /\ [](\A x, y \in Reqs :
            (EnqueuedBefore(x, y) /\ received[NewID(y)] >= 1) => received[NewID(x)] >= 1)
    /\ [](\A i, j \in DOMAIN JobQueue :
            i < j => JobKey(JobQueue[i]) < JobKey(JobQueue[j]))
    /\ [][\A y \in Reqs :
            received'[NewID(y)] > received[NewID(y)] =>
               /\ JobQueue # <<>>
               /\ JobKey(Head(JobQueue)) = NewID(y)
               /\ JobQueue' = Tail(JobQueue)
               /\ \A x \in Reqs : EnqueuedBefore(x, y) => received[NewID(x)] >= 1]_vars

\* Two jobs were received in the order they were enqueued, and the one
\* enqueued last has yielded its result while the first has not.
C22_Witness ==
    \E x, y \in Reqs :
        /\ EnqueuedBefore(x, y)
        /\ received[NewID(x)] = 1 /\ received[NewID(y)] = 1
        /\ Yielded(y) /\ ~Yielded(x)


\* The documents the translation of a body can yield, in either server.
ArgoDocuments(body) ==
    {convertGHAtoArgo(ReadWorkflow(body).wf, order) : order \in BodyOrders(body)}

SimplifiedDocuments(body) ==
    {SimplifiedWorkflow(ReadWorkflow(body).wf, order) : order \in BodyOrders(body)}

\* An output and an error that are all or nothing: with the error set the
\* output is empty, without it the output is one whole document of docs.
AllOrNothing(out, err, docs) ==
    IF err # NoError THEN out = <<>>
    ELSE Len(out) = 1 /\ out[1] \in docs

\* The results the workers hold, each with the body it was built from.
HeldResults ==
    {[body   |-> IF mode = "async" THEN workers[w].job[1].GhaYAML
                 ELSE workers[w].job[1].Payload,
      result |-> workers[w].result[1]] :
        w \in {v \in DOMAIN workers : workers[v].result # <<>>}}

\* C23: every ConversionResult a worker produces, held by the worker or
\* stored, is all or nothing: with its error set its output is empty, and
\* without an error (which takes a body that parses) its output is the
\* whole serialized document of the job's body; none carries an error and
\* a document.
C23_ResultAllOrNothing ==
    /\ \A h \in HeldResults :
          IF mode = "async"
          THEN /\ AllOrNothing(h.result.ArgoYAML, h.result.Error, ArgoDocuments(h.body))
               /\ h.result.Error = NoError => ~ReadWorkflow(h.body).err
          ELSE /\ AllOrNothing(h.result.Data, h.result.Error, SimplifiedDocuments(h.body))
               /\ h.result.Error = NoError => ~ReadWorkflow(h.body).err
    /\ \A r \in Reqs :
          (mode = "async" /\ Enqueued(r) /\ Yielded(r)) =>
             LET result == ResultStore[reqs[r].jobID]
             IN  /\ AllOrNothing(result.ArgoYAML, result.Error,
                                 ArgoDocuments(reqs[r].in.body))
                 /\ result.Error = NoError => ~FailingBody(r)
    /\ \A k \in DOMAIN ResultStore :
          \E r \in Reqs : Enqueued(r) /\ reqs[r].jobID = k

\* A stored result with an error and no output, a stored result with a
\* document and no error, and a worker holding the result of a failed
\* serialization.
C23_Witness ==
    /\ mode = "async"
    /\ \E j, k \in DOMAIN ResultStore :
          /\ ResultStore[j].Error # NoError /\ ResultStore[j].ArgoYAML = <<>>
          /\ ResultStore[k].Error = NoError /\ ResultStore[k].ArgoYAML # <<>>
    /\ \E h \in HeldResults :
          ~ReadWorkflow(h.body).err /\ h.result.Error # NoError


\* The calls blocked in the receive on the completion channel ch.
ReceivingOn(ch) ==
    {r \in Reqs : reqs[r].pc = "waiting" /\ reqs[r].resultChan = ch}

\* C24: in the synchronous server a worker waiting to hand over a result
\* always has the call that submitted the job receiving on the job's
\* channel, and only that call, so the hand-off can take place; the
\* workers being scheduled fairly, every hand-off completes and the worker
\* is back at the receive from the queue, and every job in the queue is
\* received by a worker: the pool never stands with all its workers
\* blocked while jobs remain queued.
C24_SyncHandOffCompletes ==
    /\ [](mode = "sync" => \A w \in DOMAIN workers :
            workers[w].pc = "send" =>
               /\ Cardinality(ReceivingOn(workers[w].job[1].ResultChan)) = 1
               /\ ENABLED StartWorkerPool_Send(w))
    /\ \A w \in 1..MaxWorkers :
          (mode = "sync" /\ workers[w].pc = "send") ~> (workers[w].pc = "range")
    /\ \A r \in Reqs :
          (mode = "sync" /\ NewID(r) \in {JobKey(JobQueue[i]) : i \in DOMAIN JobQueue})
             ~> (received[NewID(r)] = 1)

\* Every worker of the synchronous server is waiting to hand over a result
\* while a job remains in the queue.
C24_Witness ==
    /\ mode = "sync"
    /\ \A w \in DOMAIN workers : workers[w].pc = "send"
    /\ JobQueue # <<>>

=============================================================================
